---- MODULE Spec2Model ----
(***************************************************************************)
(* A model of the OSDF client (osdf.js).                                    *)
(*                                                                         *)
(* The paginated aggregation: query_all / oql_query_all, the two helpers   *)
(* they use (make_query_all_callback_helper,                               *)
(* make_query_all_promise_helper), and the single-page layer below them    *)
(* (query_page / oql_query_page, query_helper, make_regular_cb).           *)
(*                                                                         *)
(* The client object and its single-request operations: setup, the get,    *)
(* delete, insert, edit, validate and query operations, in callback style  *)
(* and in promise style.                                                   *)
(*                                                                         *)
(* The http module is the environment: for every request it emits the      *)
(* request's 'error' event or the response's 'end' event; SpecEvents lets  *)
(* it emit both.                                                           *)
(***************************************************************************)
EXTENDS Integers, Sequences, FiniteSets, TLC

(***************************************************************************)
(* Bounds of the model.                                                    *)
(***************************************************************************)
\* the server has non-empty pages only below page MaxPages: the fetch of
\* page MaxPages returns an empty page or fails
MaxPages == 3
\* longest result list of one page
MaxPageLen == 2
\* the same bound for the runs with two concurrent aggregations
ConcMaxPages == 2

Items == {"a", "b"}
Namespaces == {"ns1", "ns2"}
Calls == {1, 2}

(***************************************************************************)
(* JavaScript values that reach `if (err)`.                                *)
(***************************************************************************)
Null == [kind |-> "null", str |-> "", num |-> 0]
StringV(s) == [kind |-> "string", str |-> s, num |-> 0]
NumberV(n) == [kind |-> "number", str |-> "", num |-> n]
ObjectV(s) == [kind |-> "object", str |-> s, num |-> 0]
ErrorV(s) == [kind |-> "Error", str |-> s, num |-> 0]
Undefined == [kind |-> "undefined", str |-> "", num |-> 0]
BoolV(b) == [kind |-> "boolean", str |-> "", num |-> IF b THEN 1 ELSE 0]

\* ToBoolean of ECMAScript, as `if (err)` applies it
Truthy(v) ==
    CASE v.kind = "null" -> FALSE
      [] v.kind = "undefined" -> FALSE
      [] v.kind = "boolean" -> v.num # 0
      [] v.kind = "string" -> v.str # ""
      [] v.kind = "number" -> v.num # 0
      [] OTHER -> TRUE

\* _.isString / _.isObject of lodash
isString(v) == v.kind = "string"
isObject(v) == v.kind \in {"object", "Error"}

\* the query values a caller passes: an OQL string or an ES query object
Queries == {StringV("oql"), ObjectV("es")}

(***************************************************************************)
(* Pages and http events.                                                  *)
(***************************************************************************)
SeqsUpTo(S, n) == UNION {[1..k -> S] : k \in 0..n}

NoDoc == [results |-> <<>>, result_count |-> 0, search_result_total |-> 0]
NullData == [isNull |-> TRUE, doc |-> NoDoc]

\* the page document a server sends for a result list: result_count is the
\* length of the page, search_result_total is the server's own total of the
\* query, which no aggregation in the model reaches
PageDoc(r) ==
    [results |-> r, result_count |-> Len(r),
     search_result_total |-> MaxPages * MaxPageLen + 1]

PageDocs == {PageDoc(r) : r \in SeqsUpTo(Items, MaxPageLen)}

\* the pages of the runs with two concurrent aggregations
ConcPageDocs ==
    {PageDoc(r) : r \in {<<>>, <<"a">>, <<"b">>, <<"a", "b">>}}

\* a response: its status, the headers and properties the client reads, and
\* its body, which is the text of `doc` when `parses` and a text that is not
\* JSON otherwise; the Location header is a sequence of characters
NoResponse == [statusCode |-> 0, hasErrorHeader |-> FALSE, errorHeader |-> "",
               hasStatusMessage |-> FALSE, statusMessage |-> "", doc |-> NoDoc,
               parses |-> TRUE, hasLocation |-> FALSE, location |-> <<>>]

\* response 'end' with a 2xx status and a page document as body
OkEvents(docs) ==
    {[type |-> "end", err |-> Null,
      response |-> [NoResponse EXCEPT !.statusCode = 200,
                                      !.hasStatusMessage = TRUE,
                                      !.statusMessage = "OK",
                                      !.doc = d]] : d \in docs}

\* response 'end' with a non-2xx status
FailedResponses ==
    {[NoResponse EXCEPT !.statusCode = 500, !.hasErrorHeader = TRUE,
                        !.errorHeader = "bad query",
                        !.hasStatusMessage = TRUE, !.statusMessage = "ISE"],
     [NoResponse EXCEPT !.statusCode = 500, !.hasErrorHeader = TRUE,
                        !.errorHeader = "",
                        !.hasStatusMessage = TRUE, !.statusMessage = "ISE"],
     [NoResponse EXCEPT !.statusCode = 404,
                        !.hasStatusMessage = TRUE, !.statusMessage = "Not Found"],
     [NoResponse EXCEPT !.statusCode = 404,
                        !.hasStatusMessage = TRUE, !.statusMessage = ""],
     [NoResponse EXCEPT !.statusCode = 503]}

FailedEvents ==
    {[type |-> "end", err |-> Null, response |-> r] : r \in FailedResponses}

\* the request's 'error' event
ErrorEvents ==
    {[type |-> "error", err |-> ErrorV("ECONNRESET"), response |-> NoResponse]}

Events == OkEvents(PageDocs) \cup FailedEvents \cup ErrorEvents

\* the failures the runs with two concurrent aggregations draw from: a
\* truthy header, an empty header, and a request error
ConcFailedEvents ==
    {e \in FailedEvents : e.response.hasErrorHeader} \cup ErrorEvents

ConcEvents == OkEvents(ConcPageDocs) \cup ConcFailedEvents

(***************************************************************************)
(* The single-page layer: query_page / oql_query_page in callback style.   *)
(***************************************************************************)
\* request.write(JSON.stringify(query)) for an object, request.write(query)
\* for anything else
query_helper_body(query) ==
    [stringified |-> isObject(query), value |-> query]

query_page(es_query, namespace, page) ==
    [method |-> "POST",
     path |-> [prefix |-> "/nodes/query/", namespace |-> namespace,
               infix |-> "/page/", page |-> page],
     body |-> query_helper_body(es_query)]

\* (variant: the OQL page query is sent to the ES endpoint)
oql_query_page_es(oql_query, namespace, page) ==
    [method |-> "POST",
     path |-> [prefix |-> "/nodes/query/", namespace |-> namespace,
               infix |-> "/page/", page |-> page],
     body |-> query_helper_body(oql_query)]

oql_query_page(oql_query, namespace, page) ==
    [method |-> "POST",
     path |-> [prefix |-> "/nodes/oql/", namespace |-> namespace,
               infix |-> "/page/", page |-> page],
     body |-> query_helper_body(oql_query)]

\* the body text the 'data' handler collects
Body(response) == [parses |-> response.parses, doc |-> response.doc]

\* JSON.parse(body): the document of the text, or a SyntaxError
JSONparse(body) == [threw |-> ~body.parses, value |-> body.doc]

\* what the response's 'end' handler passes to callback(err, data); threw
\* when JSON.parse left the handler with an exception instead
make_regular_cb(response) ==
    IF response.statusCode >= 200 /\ response.statusCode < 300
    THEN LET parsed == JSONparse(Body(response)) IN
         [err |-> Null, data |-> [isNull |-> FALSE, doc |-> parsed.value],
          threw |-> parsed.threw]
    ELSE IF response.hasErrorHeader
         THEN [err |-> StringV(response.errorHeader), data |-> NullData,
               threw |-> FALSE]
         ELSE IF response.hasStatusMessage
              THEN [err |-> StringV(response.statusMessage), data |-> NullData,
                    threw |-> FALSE]
              ELSE [err |-> NumberV(response.statusCode), data |-> NullData,
                    threw |-> FALSE]

\* the (err, data) with which query_helper invokes its callback for an
\* http event: request.on('error') gives callback(err, null)
query_helper(ev) ==
    IF ev.type = "error"
    THEN [err |-> ev.err, data |-> NullData, threw |-> FALSE]
    ELSE make_regular_cb(ev.response)

\* a page fetch has failed when its request errored or its status is not 2xx
FetchFailed(ev) ==
    \/ ev.type = "error"
    \/ ~(ev.response.statusCode >= 200 /\ ev.response.statusCode < 300)

(***************************************************************************)
(* The aggregation helpers.                                                *)
(***************************************************************************)
NullFinal == [isNull |-> TRUE, search_result_total |-> 0, result_count |-> 0,
              results |-> <<>>]

\* var page = 1; var has_next_page = true; var all_results = []; var func
NewFrame(func) ==
    [page |-> 1, has_next_page |-> TRUE, all_results |-> <<>>, func |-> func]

NoFrame == [page |-> 0, has_next_page |-> FALSE, all_results |-> <<>>,
            func |-> "none"]

\* (variant: the variables declared once, outside the returned function)
FrameShared(c) == 1

\* the closure variables of a helper invocation belong to that invocation
Frame(c) == c

\* func(query, namespace, page, ...)
Fetch(func, query, namespace, page) ==
    IF func = "oql_query_page"
    THEN oql_query_page(query, namespace, page)
    ELSE query_page(query, namespace, page)

callback_helper_func(query) ==
    IF isString(query) THEN "oql_query_page" ELSE "query_page"

\* (variant: the promise helper always uses query_page)
promise_helper_func_es(query) == "query_page"

promise_helper_func(query) ==
    IF isString(query) THEN "oql_query_page" ELSE "query_page"

\* (variant: the iteratee writes the page number into the query it sends)
callback_helper_fetch_paging(reqs, f, query, namespace) ==
    Append(reqs, Fetch(f.func, [query EXCEPT !.num = f.page], namespace,
                       f.page))

\* one run of the iteratee: one request, for the current page
callback_helper_fetch(reqs, f, query, namespace) ==
    Append(reqs, Fetch(f.func, query, namespace, f.page))

\* (variant: the iteratee also requests the page after the current one)
promise_helper_fetch_two(reqs, f, query, namespace) ==
    reqs \o <<Fetch(f.func, query, namespace, f.page),
              Fetch(f.func, query, namespace, f.page + 1)>>

promise_helper_fetch(reqs, f, query, namespace) ==
    Append(reqs, Fetch(f.func, query, namespace, f.page))

\* (variant: the page is put in front of the accumulated results)
callback_helper_iteratee_prepend(f, err, page_result) ==
    IF Truthy(err)
    THEN [frame |-> f, cb |-> "err"]
    ELSE LET f1 == [f EXCEPT !.page = @ + 1] IN
         IF page_result.isNull
         THEN [frame |-> f1, cb |-> "throw"]
         ELSE IF Len(page_result.doc.results) > 0
              THEN [frame |-> [f1 EXCEPT !.all_results =
                                   page_result.doc.results \o @],
                    cb |-> "ok"]
              ELSE [frame |-> [f1 EXCEPT !.has_next_page = FALSE],
                    cb |-> "ok"]

\* (variant: page++ is missing)
callback_helper_iteratee_samepage(f, err, page_result) ==
    IF Truthy(err)
    THEN [frame |-> f, cb |-> "err"]
    ELSE IF page_result.isNull
         THEN [frame |-> f, cb |-> "throw"]
         ELSE IF Len(page_result.doc.results) > 0
              THEN [frame |-> [f EXCEPT !.all_results =
                                   @ \o page_result.doc.results],
                    cb |-> "ok"]
              ELSE [frame |-> [f EXCEPT !.has_next_page = FALSE],
                    cb |-> "ok"]

\* the iteratee's page callback: cb |-> "err" is cb(err), "ok" is
\* cb(null, all_results), "throw" is the TypeError of page_result['results']
\* on a null page_result
callback_helper_iteratee(f, err, page_result) ==
    IF Truthy(err)
    THEN [frame |-> f, cb |-> "err"]
    ELSE LET f1 == [f EXCEPT !.page = @ + 1] IN
         IF page_result.isNull
         THEN [frame |-> f1, cb |-> "throw"]
         ELSE IF Len(page_result.doc.results) > 0
              THEN [frame |-> [f1 EXCEPT !.all_results =
                                   @ \o page_result.doc.results],
                    cb |-> "ok"]
              ELSE [frame |-> [f1 EXCEPT !.has_next_page = FALSE],
                    cb |-> "ok"]

\* (variant: the page replaces the accumulated results)
promise_helper_iteratee_replace(f, err, page_result) ==
    IF Truthy(err)
    THEN [frame |-> f, cb |-> "err"]
    ELSE LET f1 == [f EXCEPT !.page = @ + 1] IN
         IF page_result.isNull
         THEN [frame |-> f1, cb |-> "throw"]
         ELSE IF Len(page_result.doc.results) > 0
              THEN [frame |-> [f1 EXCEPT !.all_results =
                                   page_result.doc.results],
                    cb |-> "ok"]
              ELSE [frame |-> [f1 EXCEPT !.has_next_page = FALSE],
                    cb |-> "ok"]

promise_helper_iteratee(f, err, page_result) ==
    IF Truthy(err)
    THEN [frame |-> f, cb |-> "err"]
    ELSE LET f1 == [f EXCEPT !.page = @ + 1] IN
         IF page_result.isNull
         THEN [frame |-> f1, cb |-> "throw"]
         ELSE IF Len(page_result.doc.results) > 0
              THEN [frame |-> [f1 EXCEPT !.all_results =
                                   @ \o page_result.doc.results],
                    cb |-> "ok"]
              ELSE [frame |-> [f1 EXCEPT !.has_next_page = FALSE],
                    cb |-> "ok"]

\* (variant: the test always asks for another page)
callback_helper_test_always(f) == TRUE

\* the test of doWhilst: cb(null, has_next_page)
callback_helper_test(f) == f.has_next_page

\* (variant: the test never asks for another page)
promise_helper_test_never(f) == FALSE

promise_helper_test(f) == f.has_next_page

\* (variant: search_result_total is taken from the page counter)
callback_helper_final_pages(f, err) ==
    IF Truthy(err)
    THEN [err |-> err, data |-> NullFinal]
    ELSE [err |-> Null,
          data |-> [isNull |-> FALSE,
                    search_result_total |-> f.page,
                    result_count |-> Len(f.all_results),
                    results |-> f.all_results]]

\* the final function of doWhilst: the arguments of callback(...)
\* (variant: the page counter is left in the final object)
callback_helper_final_with_page(f, err) ==
    IF Truthy(err)
    THEN [err |-> err, data |-> NullFinal]
    ELSE [err |-> Null,
          data |-> [isNull |-> FALSE,
                    search_result_total |-> Len(f.all_results),
                    result_count |-> Len(f.all_results),
                    results |-> f.all_results,
                    page |-> f.page]]

callback_helper_final(f, err) ==
    IF Truthy(err)
    THEN [err |-> err, data |-> NullFinal]
    ELSE [err |-> Null,
          data |-> [isNull |-> FALSE,
                    search_result_total |-> Len(f.all_results),
                    result_count |-> Len(f.all_results),
                    results |-> f.all_results]]

\* (variant: result_count is taken from the page counter)
promise_helper_final_pages(f, err) ==
    IF Truthy(err)
    THEN [state |-> "rejected", err |-> err, data |-> NullFinal]
    ELSE [state |-> "resolved", err |-> Null,
          data |-> [isNull |-> FALSE,
                    search_result_total |-> Len(f.all_results),
                    result_count |-> f.page,
                    results |-> f.all_results]]

\* the final function of doWhilst: reject(err) or resolve(final)
promise_helper_final(f, err) ==
    IF Truthy(err)
    THEN [state |-> "rejected", err |-> err, data |-> NullFinal]
    ELSE [state |-> "resolved", err |-> Null,
          data |-> [isNull |-> FALSE,
                    search_result_total |-> Len(f.all_results),
                    result_count |-> Len(f.all_results),
                    results |-> f.all_results]]

(***************************************************************************)
(* The client object: host, port, auth, ssl, and the module variable http. *)
(***************************************************************************)
\* var http = null; osdf.host = '127.0.0.1'; osdf.port = 8123;
\* osdf.auth = null; osdf.ssl = false
ModuleDefaults ==
    [host |-> StringV("127.0.0.1"), port |-> NumberV(8123), auth |-> Null,
     ssl |-> BoolV(FALSE), http |-> "null"]

\* a settings object without any property
NoSettings == [host |-> Undefined, port |-> Undefined, auth |-> Undefined,
               ssl |-> Undefined]

\* the settings of the test suites: osdf.setup({auth: 'test:test'})
TestSettings == [NoSettings EXCEPT !.auth = StringV("test:test")]

\* the settings objects a caller passes to setup: each property is given or
\* left out, and the port is given as a number or as a string of digits
Settings ==
    {[host |-> h, port |-> p, auth |-> a, ssl |-> l] :
        h \in {Undefined, StringV("osdf.example.org")},
        p \in {Undefined, NumberV(9000), StringV("9000")},
        a \in {Undefined, StringV("test:test")},
        l \in {Undefined, BoolV(TRUE)}}

NaN == [kind |-> "number", str |-> "NaN", num |-> 0]

\* parseInt(port, 10), for the port values of Settings
parseInt(v) ==
    CASE v.kind = "number" -> v
      [] v = StringV("9000") -> NumberV(9000)
      [] v = StringV("8123") -> NumberV(8123)
      [] OTHER -> NaN

\* the client object that setup(settings) leaves
setup_this(this, settings) ==
    [host |-> settings.host,
     ssl |-> settings.ssl,
     http |-> IF Truthy(settings.ssl) THEN "https" ELSE "http",
     port |-> IF Truthy(settings.port) THEN parseInt(settings.port)
              ELSE this.port,
     auth |-> IF Truthy(settings.auth) THEN settings.auth ELSE this.auth]

(***************************************************************************)
(* Single-request operations: what a call delivers.                        *)
(***************************************************************************)
\* the second argument of callback(err, data) and the value of resolve(data)
NoData(kind) == [kind |-> kind, doc |-> NoDoc, parses |-> TRUE, chars |-> <<>>]
UndefinedData == NoData("undefined")
NullValue == NoData("null")
\* a parsed document
JsonData(doc) == [NoData("json") EXCEPT !.doc = doc]
\* a body text, not parsed
TextData(body) ==
    [NoData("text") EXCEPT !.doc = body.doc, !.parses = body.parses]
\* a string, as a sequence of characters
StringData(chars) == [NoData("string") EXCEPT !.chars = chars]

\* the data of make_regular_cb / make_promise_cb as such a value
RegularData(d) == IF d.isNull THEN NullValue ELSE JsonData(d.doc)

\* what a handler does in callback style: invoke callback(err, data), or
\* leave with an exception
CallbackCall(err, data) == [cb |-> "call", err |-> err, data |-> data]
CallbackThrow == [cb |-> "throw", err |-> Null, data |-> UndefinedData]

\* what a handler does in promise style: resolve(data), reject(err), or
\* leave with an exception
Resolve(data) == [settle |-> "resolve", err |-> Null, data |-> data]
Reject(err) == [settle |-> "reject", err |-> err, data |-> UndefinedData]
PromiseThrow == [settle |-> "throw", err |-> Null, data |-> UndefinedData]

\* (variant: the statusMessage is preferred to the x-osdf-error header)
error_of_message_first(response) ==
    IF response.hasStatusMessage
    THEN StringV(response.statusMessage)
    ELSE IF response.hasErrorHeader
         THEN StringV(response.errorHeader)
         ELSE NumberV(response.statusCode)

\* the error value of a response whose status is not a success status: the
\* x-osdf-error header, else the statusMessage, else the statusCode
error_of(response) ==
    IF response.hasErrorHeader
    THEN StringV(response.errorHeader)
    ELSE IF response.hasStatusMessage
         THEN StringV(response.statusMessage)
         ELSE NumberV(response.statusCode)

\* get_helper and query_helper, callback style: make_regular_cb(callback)
regular_cb(response) ==
    LET r == make_regular_cb(response) IN
    IF r.threw THEN CallbackThrow ELSE CallbackCall(r.err, RegularData(r.data))

\* (variant: the promise resolves with the body text)
make_promise_cb_text(response) ==
    IF response.statusCode >= 200 /\ response.statusCode < 300
    THEN Resolve(TextData(Body(response)))
    ELSE Reject(error_of(response))

\* get_helper and query_helper, promise style
make_promise_cb(response) ==
    IF response.statusCode >= 200 /\ response.statusCode < 300
    THEN LET parsed == JSONparse(Body(response)) IN
         IF parsed.threw THEN PromiseThrow
         ELSE Resolve(JsonData(parsed.value))
    ELSE Reject(error_of(response))

deletion_helper_cb(response) ==
    IF response.statusCode = 204
    THEN CallbackCall(Null, UndefinedData)
    ELSE CallbackCall(error_of(response), UndefinedData)

deletion_helper_promise(response) ==
    IF response.statusCode = 204
    THEN Resolve(UndefinedData)
    ELSE Reject(error_of(response))

insertion_helper_cb(response) ==
    IF response.statusCode = 201
    THEN CallbackCall(Null, UndefinedData)
    ELSE CallbackCall(error_of(response), NullValue)

insertion_helper_promise(response) ==
    IF response.statusCode = 201
    THEN Resolve(UndefinedData)
    ELSE Reject(error_of(response))

\* edit_aux_schema, edit_node and edit_schema have the same two handlers
edit_cb(response) ==
    IF response.statusCode = 200
    THEN CallbackCall(Null, UndefinedData)
    ELSE CallbackCall(error_of(response), UndefinedData)

edit_promise(response) ==
    IF response.statusCode = 200
    THEN Resolve(UndefinedData)
    ELSE Reject(error_of(response))

\* location.split('/').pop(): the characters after the last '/'
RECURSIVE split_pop(_)
split_pop(chars) ==
    IF chars = <<>> THEN <<>>
    ELSE IF chars[Len(chars)] = "/" THEN <<>>
         ELSE Append(split_pop(SubSeq(chars, 1, Len(chars) - 1)),
                     chars[Len(chars)])

\* response['headers']['location'] is undefined without the header, and
\* undefined.split throws a TypeError
insert_node_cb(response) ==
    IF response.statusCode = 201
    THEN IF response.hasLocation
         THEN CallbackCall(Null, StringData(split_pop(response.location)))
         ELSE CallbackThrow
    ELSE CallbackCall(error_of(response), NullValue)

insert_node_promise(response) ==
    IF response.statusCode = 201
    THEN IF response.hasLocation
         THEN Resolve(StringData(split_pop(response.location)))
         ELSE PromiseThrow
    ELSE Reject(error_of(response))

\* (variant: only 200 is a success)
validate_node_cb_200(response) ==
    IF response.statusCode = 200
    THEN CallbackCall(Null, TextData(Body(response)))
    ELSE CallbackCall(error_of(response), NullValue)

\* 422: the node data was invalid; 200: the node data was valid
validate_node_cb(response) ==
    IF response.statusCode = 422 \/ response.statusCode = 200
    THEN CallbackCall(Null, TextData(Body(response)))
    ELSE CallbackCall(error_of(response), NullValue)

validate_node_promise(response) ==
    IF response.statusCode = 422 \/ response.statusCode = 200
    THEN Resolve(TextData(Body(response)))
    ELSE Reject(error_of(response))

\* request.on('error', ...): callback(err, null) resp. reject(err)
request_error_cb(err) == CallbackCall(err, NullValue)
request_error_promise(err) == Reject(err)

Handlers == {"regular", "deletion", "insertion", "edit", "insert_node",
             "validate_node"}

\* the response 'end' handler that an operation installs
end_cb(handler, response) ==
    CASE handler = "regular" -> regular_cb(response)
      [] handler = "deletion" -> deletion_helper_cb(response)
      [] handler = "insertion" -> insertion_helper_cb(response)
      [] handler = "edit" -> edit_cb(response)
      [] handler = "insert_node" -> insert_node_cb(response)
      [] handler = "validate_node" -> validate_node_cb(response)

end_promise(handler, response) ==
    CASE handler = "regular" -> make_promise_cb(response)
      [] handler = "deletion" -> deletion_helper_promise(response)
      [] handler = "insertion" -> insertion_helper_promise(response)
      [] handler = "edit" -> edit_promise(response)
      [] handler = "insert_node" -> insert_node_promise(response)
      [] handler = "validate_node" -> validate_node_promise(response)

(***************************************************************************)
(* Single-request operations: the request of a call.                       *)
(***************************************************************************)
NoBody == [stringified |-> FALSE, name |-> "", value |-> Undefined]

\* request.write(JSON.stringify(data))
JSONstringify(data) == [stringified |-> TRUE, name |-> "", value |-> data]

\* var schema_doc = { name: name, schema: schema }, stringified
schema_doc(name, schema) ==
    [stringified |-> TRUE, name |-> name, value |-> schema]

\* http.request(options, cb) with options = { auth: this.auth,
\* host: this.host, port: this.port, path: ..., method: ... }, and what is
\* written to the request
Request(this, method, path, body) ==
    [module |-> this.http, auth |-> this.auth, host |-> this.host,
     port |-> this.port, method |-> method, path |-> path, body |-> body]

NoRequest == Request(ModuleDefaults, "", <<>>, NoBody)

\* the arguments of the single-request operations
NodeIds == {"n1"}
SchemaNames == {"s1"}
Versions == {1}
Documents == {ObjectV("doc")}
Pages == {1, 2}
OpSlots == {1, 2}

NoOpPromise == [state |-> "none", err |-> Null, data |-> UndefinedData]

\* a call of a single-request operation: what was called and how, the
\* request it issued, what the call returned, the http events of the
\* request, and what reached the caller
NoOp == [active |-> FALSE, name |-> "none", style |-> "none",
         handler |-> "none", issued |-> FALSE, request |-> NoRequest,
         returned |-> "none", threw |-> FALSE, events |-> <<>>,
         cb_calls |-> <<>>, promise |-> NoOpPromise, uncaught |-> FALSE]

(***************************************************************************)
(* State.                                                                  *)
(***************************************************************************)
VARIABLES
    call,       \* per call: the arguments of query_all / oql_query_all
    frame,      \* per helper invocation: page, has_next_page, all_results, func
    requests,   \* per call: the http requests issued so far, in order
    pending,    \* per call: the requests (indices) without an event yet
    delivered,  \* per call: the http events delivered so far, in order
    cb_calls,   \* per call: the invocations of the caller's callback
    promise,    \* per call: the promise returned to the caller
    uncaught,   \* per call: an exception left a page callback
    osdf,       \* the client object and the http module in use
    last_settings,  \* the settings of the most recent setup call
    ops         \* per slot: a call of a single-request operation

aggvars == <<call, frame, requests, pending, delivered, cb_calls, promise,
             uncaught>>

opvars == <<osdf, last_settings, ops>>

vars == <<call, frame, requests, pending, delivered, cb_calls, promise,
          uncaught, osdf, last_settings, ops>>

Styles == {"callback", "promise"}

NoCall == [active |-> FALSE, entry |-> "none", style |-> "none",
           query |-> Null, namespace |-> ""]

NoPromise == [state |-> "none", err |-> Null, data |-> NullFinal]

Init ==
    /\ call = [c \in Calls |-> NoCall]
    /\ frame = [c \in Calls |-> NoFrame]
    /\ requests = [c \in Calls |-> <<>>]
    /\ pending = [c \in Calls |-> {}]
    /\ delivered = [c \in Calls |-> <<>>]
    /\ cb_calls = [c \in Calls |-> <<>>]
    /\ promise = [c \in Calls |-> NoPromise]
    /\ uncaught = [c \in Calls |-> FALSE]
    /\ osdf = ModuleDefaults
    /\ last_settings = [called |-> FALSE, settings |-> NoSettings]
    /\ ops = [s \in OpSlots |-> NoOp]

\* the client as the test suites configure it before their first call:
\* osdf.setup({auth: 'test:test'})
Configured ==
    /\ call = [c \in Calls |-> NoCall]
    /\ frame = [c \in Calls |-> NoFrame]
    /\ requests = [c \in Calls |-> <<>>]
    /\ pending = [c \in Calls |-> {}]
    /\ delivered = [c \in Calls |-> <<>>]
    /\ cb_calls = [c \in Calls |-> <<>>]
    /\ promise = [c \in Calls |-> NoPromise]
    /\ uncaught = [c \in Calls |-> FALSE]
    /\ osdf = setup_this(ModuleDefaults, TestSettings)
    /\ last_settings = [called |-> TRUE, settings |-> TestSettings]
    /\ ops = [s \in OpSlots |-> NoOp]

\* the body shared by query_all and oql_query_all: make the helper for the
\* style, invoke it; the helper sets up its variables and doWhilst runs the
\* iteratee once, which issues the request for `page`
StartHelper(c, entry, query, namespace, style) ==
    /\ call' = [call EXCEPT ![c] = [active |-> TRUE, entry |-> entry,
                                    style |-> style, query |-> query,
                                    namespace |-> namespace]]
    /\ LET func == IF style = "callback"
                   THEN callback_helper_func(query)
                   ELSE promise_helper_func(query)
           f == NewFrame(func)
       IN /\ frame' = [frame EXCEPT ![Frame(c)] = f]
          /\ requests' = [requests EXCEPT ![c] =
                             IF style = "callback"
                             THEN callback_helper_fetch(<<>>, f, query, namespace)
                             ELSE promise_helper_fetch(<<>>, f, query, namespace)]
    /\ pending' = [pending EXCEPT ![c] = 1..Len(requests'[c])]
    /\ promise' = [promise EXCEPT ![c] =
                      IF style = "promise"
                      THEN [NoPromise EXCEPT !.state = "pending"]
                      ELSE NoPromise]
    /\ UNCHANGED <<delivered, cb_calls, uncaught>>
    /\ UNCHANGED opvars

\* a call is made once: c names the call
query_all(c, es_query, namespace, style) ==
    /\ ~call[c].active
    /\ StartHelper(c, "query_all", es_query, namespace, style)

oql_query_all(c, oql_query, namespace, style) ==
    /\ ~call[c].active
    /\ StartHelper(c, "oql_query_all", oql_query, namespace, style)

\* the bound on the length of a run: the server has a non-empty page only
\* for the page numbers below maxpages
ServerAnswers(req, ev, maxpages) ==
    (~FetchFailed(ev) /\ Len(ev.response.doc.results) > 0)
        => req.path.page < maxpages

\* an http event for the outstanding page request of a callback-style
\* aggregation: query_helper's callback, the iteratee's page callback, the
\* test and either the next iteration or the final function
callback_helper_page_cb(c, ev, maxpages) ==
    /\ call[c].active
    /\ call[c].style = "callback"
    /\ \E n \in pending[c] :
          LET r == query_helper(ev)
              it == IF r.threw
                    THEN [frame |-> frame[Frame(c)], cb |-> "throw"]
                    ELSE callback_helper_iteratee(frame[Frame(c)], r.err,
                                                  r.data)
              f == it.frame
              again == it.cb = "ok" /\ callback_helper_test(f)
          IN /\ ServerAnswers(requests[c][n], ev, maxpages)
             /\ delivered' = [delivered EXCEPT ![c] =
                                 Append(@, [request |-> n, ev |-> ev])]
             /\ frame' = [frame EXCEPT ![Frame(c)] = f]
             /\ requests' = [requests EXCEPT ![c] =
                                IF again
                                THEN callback_helper_fetch(@, f, call[c].query,
                                                     call[c].namespace)
                                ELSE @]
             /\ pending' = [pending EXCEPT ![c] =
                               (@ \ {n}) \cup
                               ((Len(requests[c]) + 1)..Len(requests'[c]))]
             /\ cb_calls' = [cb_calls EXCEPT ![c] =
                                IF it.cb = "err"
                                THEN Append(@, callback_helper_final(f, r.err))
                                ELSE IF it.cb = "ok" /\ ~again
                                     THEN Append(@, callback_helper_final(f, Null))
                                     ELSE @]
             /\ uncaught' = [uncaught EXCEPT ![c] = @ \/ it.cb = "throw"]
    /\ UNCHANGED <<call, promise>>
    /\ UNCHANGED opvars

\* the same for a promise-style aggregation
promise_helper_page_cb(c, ev, maxpages) ==
    /\ call[c].active
    /\ call[c].style = "promise"
    /\ \E n \in pending[c] :
          LET r == query_helper(ev)
              it == IF r.threw
                    THEN [frame |-> frame[Frame(c)], cb |-> "throw"]
                    ELSE promise_helper_iteratee(frame[Frame(c)], r.err,
                                                 r.data)
              f == it.frame
              again == it.cb = "ok" /\ promise_helper_test(f)
          IN /\ ServerAnswers(requests[c][n], ev, maxpages)
             /\ delivered' = [delivered EXCEPT ![c] =
                                 Append(@, [request |-> n, ev |-> ev])]
             /\ frame' = [frame EXCEPT ![Frame(c)] = f]
             /\ requests' = [requests EXCEPT ![c] =
                                IF again
                                THEN promise_helper_fetch(@, f, call[c].query,
                                                     call[c].namespace)
                                ELSE @]
             /\ pending' = [pending EXCEPT ![c] =
                               (@ \ {n}) \cup
                               ((Len(requests[c]) + 1)..Len(requests'[c]))]
             \* settling a settled promise has no effect
             /\ promise' = [promise EXCEPT ![c] =
                               IF @.state # "pending" THEN @
                               ELSE IF it.cb = "err"
                                    THEN promise_helper_final(f, r.err)
                                    ELSE IF it.cb = "ok" /\ ~again
                                         THEN promise_helper_final(f, Null)
                                         ELSE @]
             /\ uncaught' = [uncaught EXCEPT ![c] = @ \/ it.cb = "throw"]
    /\ UNCHANGED <<call, cb_calls>>
    /\ UNCHANGED opvars

\* one aggregation call
Next ==
    \/ \E q \in Queries, ns \in Namespaces, st \in Styles :
           query_all(1, q, ns, st)
    \/ \E q \in Queries, ns \in Namespaces, st \in Styles :
           oql_query_all(1, q, ns, st)
    \/ \E ev \in Events : callback_helper_page_cb(1, ev, MaxPages)
    \/ \E ev \in Events : promise_helper_page_cb(1, ev, MaxPages)

Spec == Configured /\ [][Next]_vars

\* two aggregation calls whose page fetches complete in any interleaving
NextConc ==
    \/ \E c \in Calls, q \in Queries, st \in Styles :
           query_all(c, q, "ns1", st)
    \/ \E c \in Calls, q \in Queries, st \in Styles :
           oql_query_all(c, q, "ns1", st)
    \/ \E c \in Calls, ev \in ConcEvents :
           callback_helper_page_cb(c, ev, ConcMaxPages)
    \/ \E c \in Calls, ev \in ConcEvents :
           promise_helper_page_cb(c, ev, ConcMaxPages)

SpecConc == Configured /\ [][NextConc]_vars

(***************************************************************************)
(* The client object and the single-request operations.                    *)
(***************************************************************************)
\* osdf.setup(settings)
setup(settings) ==
    /\ osdf' = setup_this(osdf, settings)
    /\ last_settings' = [called |-> TRUE, settings |-> settings]
    /\ UNCHANGED ops
    /\ UNCHANGED aggvars

\* the body shared by the single-request operations: http.request(options,
\* cb), request.on('error', ...), request.write(...), request.end(). While
\* http is null, http.request throws a TypeError: in callback style it
\* leaves the operation, in promise style it leaves the executor of the
\* promise, which rejects the promise.
StartOp(s, name, handler, style, request) ==
    /\ ops' = [ops EXCEPT ![s] =
          IF osdf.http = "null"
          THEN IF style = "callback"
               THEN [NoOp EXCEPT !.active = TRUE, !.name = name,
                                 !.style = style, !.handler = handler,
                                 !.returned = "none", !.threw = TRUE]
               ELSE [NoOp EXCEPT !.active = TRUE, !.name = name,
                                 !.style = style, !.handler = handler,
                                 !.returned = "promise",
                                 !.promise = [NoOpPromise EXCEPT
                                     !.state = "rejected",
                                     !.err = ErrorV("TypeError")]]
          ELSE [NoOp EXCEPT !.active = TRUE, !.name = name,
                            !.style = style, !.handler = handler,
                            !.issued = TRUE, !.request = request,
                            !.returned = IF style = "callback"
                                         THEN "undefined" ELSE "promise",
                            !.promise = IF style = "callback"
                                        THEN NoOpPromise
                                        ELSE [NoOpPromise EXCEPT
                                                 !.state = "pending"]]]
    /\ UNCHANGED <<osdf, last_settings>>
    /\ UNCHANGED aggvars

delete_aux_schema(s, namespace, aux_schema_name, style) ==
    /\ ~ops[s].active
    /\ StartOp(s, "delete_aux_schema", "deletion", style,
               Request(osdf, "DELETE",
                       <<"/namespaces/", namespace, "/schemas/aux/",
                         aux_schema_name>>, NoBody))

delete_node(s, node_id, style) ==
    /\ ~ops[s].active
    /\ StartOp(s, "delete_node", "deletion", style,
               Request(osdf, "DELETE", <<"/nodes/", node_id>>, NoBody))

delete_schema(s, namespace, schema_name, style) ==
    /\ ~ops[s].active
    /\ StartOp(s, "delete_schema", "deletion", style,
               Request(osdf, "DELETE",
                       <<"/namespaces/", namespace, "/schemas/",
                         schema_name>>, NoBody))

edit_aux_schema(s, namespace, aux_schema_name, aux_schema, style) ==
    /\ ~ops[s].active
    /\ StartOp(s, "edit_aux_schema", "edit", style,
               Request(osdf, "PUT",
                       <<"/namespaces/", namespace, "/schemas/aux/",
                         aux_schema_name>>, JSONstringify(aux_schema)))

edit_node(s, node_id, node_data, style) ==
    /\ ~ops[s].active
    /\ StartOp(s, "edit_node", "edit", style,
               Request(osdf, "PUT", <<"/nodes/", node_id>>,
                       JSONstringify(node_data)))

edit_schema(s, namespace, name, schema, style) ==
    /\ ~ops[s].active
    /\ StartOp(s, "edit_schema", "edit", style,
               Request(osdf, "PUT",
                       <<"/namespaces/", namespace, "/schemas/", name>>,
                       schema_doc(name, schema)))

get_aux_schema(s, namespace, aux_schema_name, style) ==
    /\ ~ops[s].active
    /\ StartOp(s, "get_aux_schema", "regular", style,
               Request(osdf, "GET",
                       <<"/namespaces/", namespace, "/schemas/aux/",
                         aux_schema_name>>, NoBody))

get_aux_schemas(s, namespace, style) ==
    /\ ~ops[s].active
    /\ StartOp(s, "get_aux_schemas", "regular", style,
               Request(osdf, "GET",
                       <<"/namespaces/", namespace, "/schemas/aux/">>,
                       NoBody))

get_namespace(s, namespace, style) ==
    /\ ~ops[s].active
    /\ StartOp(s, "get_namespace", "regular", style,
               Request(osdf, "GET", <<"/namespaces/", namespace>>, NoBody))

get_namespaces(s, style) ==
    /\ ~ops[s].active
    /\ StartOp(s, "get_namespaces", "regular", style,
               Request(osdf, "GET", <<"/namespaces">>, NoBody))

get_node(s, node_id, style) ==
    /\ ~ops[s].active
    /\ StartOp(s, "get_node", "regular", style,
               Request(osdf, "GET", <<"/nodes/", node_id>>, NoBody))

get_node_by_version(s, node_id, version, style) ==
    /\ ~ops[s].active
    /\ StartOp(s, "get_node_by_version", "regular", style,
               Request(osdf, "GET",
                       <<"/nodes/", node_id, "/ver/", ToString(version)>>,
                       NoBody))

get_node_in_links(s, node_id, style) ==
    /\ ~ops[s].active
    /\ StartOp(s, "get_node_in_links", "regular", style,
               Request(osdf, "GET", <<"/nodes/", node_id, "/in">>, NoBody))

get_node_out_links(s, node_id, style) ==
    /\ ~ops[s].active
    /\ StartOp(s, "get_node_out_links", "regular", style,
               Request(osdf, "GET", <<"/nodes/", node_id, "/out">>, NoBody))

get_schema(s, namespace, schema_name, style) ==
    /\ ~ops[s].active
    /\ StartOp(s, "get_schema", "regular", style,
               Request(osdf, "GET",
                       <<"/namespaces/", namespace, "/schemas/",
                         schema_name>>, NoBody))

get_schemas(s, namespace, style) ==
    /\ ~ops[s].active
    /\ StartOp(s, "get_schemas", "regular", style,
               Request(osdf, "GET",
                       <<"/namespaces/", namespace, "/schemas/">>, NoBody))

info(s, style) ==
    /\ ~ops[s].active
    /\ StartOp(s, "info", "regular", style,
               Request(osdf, "GET", <<"/info">>, NoBody))

insert_aux_schema(s, namespace, name, aux_schema, style) ==
    /\ ~ops[s].active
    /\ StartOp(s, "insert_aux_schema", "insertion", style,
               Request(osdf, "POST",
                       <<"/namespaces/", namespace, "/schemas/aux">>,
                       schema_doc(name, aux_schema)))

insert_node(s, node_data, style) ==
    /\ ~ops[s].active
    /\ StartOp(s, "insert_node", "insert_node", style,
               Request(osdf, "POST", <<"/nodes">>, JSONstringify(node_data)))

insert_schema(s, namespace, name, schema, style) ==
    /\ ~ops[s].active
    /\ StartOp(s, "insert_schema", "insertion", style,
               Request(osdf, "POST",
                       <<"/namespaces/", namespace, "/schemas">>,
                       schema_doc(name, schema)))

oql_query(s, oql, namespace, style) ==
    /\ ~ops[s].active
    /\ StartOp(s, "oql_query", "regular", style,
               Request(osdf, "POST",
                       [prefix |-> "/nodes/oql/", namespace |-> namespace],
                       query_helper_body(oql)))

\* osdf.oql_query_page called by a user of the client
oql_query_page_call(s, oql, namespace, page, style) ==
    /\ ~ops[s].active
    /\ LET r == oql_query_page(oql, namespace, page) IN
       StartOp(s, "oql_query_page", "regular", style,
               Request(osdf, r.method, r.path, r.body))

query(s, es_query, namespace, style) ==
    /\ ~ops[s].active
    /\ StartOp(s, "query", "regular", style,
               Request(osdf, "POST",
                       [prefix |-> "/nodes/query/", namespace |-> namespace],
                       query_helper_body(es_query)))

\* osdf.query_page called by a user of the client
query_page_call(s, es_query, namespace, page, style) ==
    /\ ~ops[s].active
    /\ LET r == query_page(es_query, namespace, page) IN
       StartOp(s, "query_page", "regular", style,
               Request(osdf, r.method, r.path, r.body))

validate_node(s, node_data, style) ==
    /\ ~ops[s].active
    /\ StartOp(s, "validate_node", "validate_node", style,
               Request(osdf, "POST", <<"/nodes/validate">>,
                       JSONstringify(node_data)))

\* what reaches the caller of slot s when a handler has run
Delivered(o, ev, r_cb, r_promise) ==
    IF o.style = "callback"
    THEN [o EXCEPT !.events = Append(@, ev),
                   !.cb_calls = IF r_cb.cb = "call"
                                THEN Append(@, [err |-> r_cb.err,
                                                data |-> r_cb.data])
                                ELSE @,
                   !.uncaught = @ \/ r_cb.cb = "throw"]
    ELSE [o EXCEPT !.events = Append(@, ev),
                   \* settling a settled promise has no effect
                   !.promise = IF @.state # "pending" THEN @
                               ELSE IF r_promise.settle = "resolve"
                                    THEN [state |-> "resolved", err |-> Null,
                                          data |-> r_promise.data]
                                    ELSE IF r_promise.settle = "reject"
                                         THEN [state |-> "rejected",
                                               err |-> r_promise.err,
                                               data |-> UndefinedData]
                                         ELSE @,
                   !.uncaught = @ \/ r_promise.settle = "throw"]

\* the response of the request of slot s has ended
response_on_end(s, response) ==
    /\ ops[s].issued
    /\ ops[s].events = <<>>
    /\ ops' = [ops EXCEPT ![s] =
                  Delivered(@, [type |-> "end", err |-> Null,
                                response |-> response],
                            end_cb(@.handler, response),
                            end_promise(@.handler, response))]
    /\ UNCHANGED <<osdf, last_settings>>
    /\ UNCHANGED aggvars

\* the request of slot s has emitted 'error'
request_on_error(s, err) ==
    /\ ops[s].issued
    /\ ops[s].events = <<>>
    /\ ops' = [ops EXCEPT ![s] =
                  Delivered(@, [type |-> "error", err |-> err,
                                response |-> NoResponse],
                            request_error_cb(err),
                            request_error_promise(err))]
    /\ UNCHANGED <<osdf, last_settings>>
    /\ UNCHANGED aggvars

\* the response of the request of slot s ends after the request has emitted
\* 'error': both handlers are installed for the whole life of the request
response_on_end_after_error(s, response) ==
    /\ ops[s].issued
    /\ Len(ops[s].events) = 1
    /\ ops[s].events[1].type = "error"
    /\ ops' = [ops EXCEPT ![s] =
                  Delivered(@, [type |-> "end", err |-> Null,
                                response |-> response],
                            end_cb(@.handler, response),
                            end_promise(@.handler, response))]
    /\ UNCHANGED <<osdf, last_settings>>
    /\ UNCHANGED aggvars

\* the request of slot s emits 'error' after its response has ended
request_on_error_after_end(s, err) ==
    /\ ops[s].issued
    /\ Len(ops[s].events) = 1
    /\ ops[s].events[1].type = "end"
    /\ ops' = [ops EXCEPT ![s] =
                  Delivered(@, [type |-> "error", err |-> err,
                                response |-> NoResponse],
                            request_error_cb(err),
                            request_error_promise(err))]
    /\ UNCHANGED <<osdf, last_settings>>
    /\ UNCHANGED aggvars

(***************************************************************************)
(* The server's responses to single requests.                              *)
(***************************************************************************)
\* a page document that names its page
OpDoc(p) ==
    [results |-> <<"a">>, result_count |-> 1, search_result_total |-> 1,
     page |-> p]

\* response bodies: the text of a document, or a text that is not JSON
OpBodies ==
    {[parses |-> TRUE, doc |-> OpDoc(p)] : p \in Pages}
        \cup {[parses |-> FALSE, doc |-> NoDoc]}

\* Location headers: a path, a bare id, a path that ends with '/'
Locations ==
    {<<"/", "n", "o", "d", "e", "s", "/", "n", "1">>,
     <<"n", "1">>,
     <<"/", "n", "o", "d", "e", "s", "/">>}

Answer(status, message, body) ==
    [NoResponse EXCEPT !.statusCode = status, !.hasStatusMessage = TRUE,
                       !.statusMessage = message, !.doc = body.doc,
                       !.parses = body.parses]

Created == Answer(201, "Created", [parses |-> TRUE, doc |-> OpDoc(1)])

OpResponses ==
    {Answer(st, "OK", b) : st \in {200, 204, 299}, b \in OpBodies}
        \cup {Answer(422, "Unprocessable Entity", b) : b \in OpBodies}
        \cup {Created}
        \cup {[Created EXCEPT !.hasLocation = TRUE, !.location = l] :
                 l \in Locations}
        \cup FailedResponses

\* the responses of the runs with two calls
PairResponses ==
    {Answer(200, "OK", b) : b \in {x \in OpBodies : x.doc \in {OpDoc(1), NoDoc}}}
        \cup {Answer(204, "OK", [parses |-> FALSE, doc |-> NoDoc]),
              Answer(422, "Unprocessable Entity",
                     [parses |-> TRUE, doc |-> OpDoc(1)]),
              Created,
              [Created EXCEPT !.hasLocation = TRUE,
                              !.location = <<"/", "n", "/", "n", "1">>]}
        \cup {r \in FailedResponses : r.statusCode = 500}

\* a call of any single-request operation in slot s
OpCall(s, nss, queries, pages) ==
    \E style \in Styles :
        \/ \E ns \in nss, n \in SchemaNames : delete_aux_schema(s, ns, n, style)
        \/ \E id \in NodeIds : delete_node(s, id, style)
        \/ \E ns \in nss, n \in SchemaNames : delete_schema(s, ns, n, style)
        \/ \E ns \in nss, n \in SchemaNames, d \in Documents :
               edit_aux_schema(s, ns, n, d, style)
        \/ \E id \in NodeIds, d \in Documents : edit_node(s, id, d, style)
        \/ \E ns \in nss, n \in SchemaNames, d \in Documents :
               edit_schema(s, ns, n, d, style)
        \/ \E ns \in nss, n \in SchemaNames : get_aux_schema(s, ns, n, style)
        \/ \E ns \in nss : get_aux_schemas(s, ns, style)
        \/ \E ns \in nss : get_namespace(s, ns, style)
        \/ get_namespaces(s, style)
        \/ \E id \in NodeIds : get_node(s, id, style)
        \/ \E id \in NodeIds, v \in Versions :
               get_node_by_version(s, id, v, style)
        \/ \E id \in NodeIds : get_node_in_links(s, id, style)
        \/ \E id \in NodeIds : get_node_out_links(s, id, style)
        \/ \E ns \in nss, n \in SchemaNames : get_schema(s, ns, n, style)
        \/ \E ns \in nss : get_schemas(s, ns, style)
        \/ info(s, style)
        \/ \E ns \in nss, n \in SchemaNames, d \in Documents :
               insert_aux_schema(s, ns, n, d, style)
        \/ \E d \in Documents : insert_node(s, d, style)
        \/ \E ns \in nss, n \in SchemaNames, d \in Documents :
               insert_schema(s, ns, n, d, style)
        \/ \E q \in queries, ns \in nss : oql_query(s, q, ns, style)
        \/ \E q \in queries, ns \in nss, p \in pages :
               oql_query_page_call(s, q, ns, p, style)
        \/ \E q \in queries, ns \in nss : query(s, q, ns, style)
        \/ \E q \in queries, ns \in nss, p \in pages :
               query_page_call(s, q, ns, p, style)
        \/ \E d \in Documents : validate_node(s, d, style)

\* one call of a single-request operation, before or after the setup of
\* the test suites
NextOps ==
    \/ setup(TestSettings)
    \/ OpCall(1, Namespaces, Queries, Pages)
    \/ \E r \in OpResponses : response_on_end(1, r)
    \/ \E e \in ErrorEvents : request_on_error(1, e.err)

SpecOps == Init /\ [][NextOps]_vars

\* one call of a single-request operation whose request may emit 'error'
\* and have its response end, in either order
NextEvents ==
    \/ NextOps
    \/ \E r \in OpResponses : response_on_end_after_error(1, r)
    \/ \E e \in ErrorEvents : request_on_error_after_end(1, e.err)

SpecEvents == Init /\ [][NextEvents]_vars

\* two calls of single-request operations
NextPair ==
    \/ setup(TestSettings)
    \/ \E s \in OpSlots : OpCall(s, {"ns1"}, {ObjectV("es")}, {1})
    \/ \E s \in OpSlots, r \in PairResponses : response_on_end(s, r)
    \/ \E s \in OpSlots, e \in ErrorEvents : request_on_error(s, e.err)

SpecPair == Init /\ [][NextPair]_vars

\* any sequence of setup calls, and requests issued in between
NextSetup ==
    \/ \E settings \in Settings : setup(settings)
    \/ \E s \in OpSlots, style \in Styles : info(s, style)
    \/ \E s \in OpSlots, d \in Documents : insert_node(s, d, "promise")

SpecSetup == Init /\ [][NextSetup]_vars

(***************************************************************************)
(* Vocabulary of the properties.                                           *)
(***************************************************************************)
\* the outcome the caller has seen: (null, R) / resolve(R) is "resolved",
\* (E, null) / reject(E) is "rejected"
Outcome(c) ==
    IF call[c].style = "promise"
    THEN promise[c]
    ELSE IF cb_calls[c] = <<>>
         THEN [NoPromise EXCEPT !.state = "pending"]
         ELSE LET a == cb_calls[c][Len(cb_calls[c])] IN
              [state |-> IF a.data.isNull THEN "rejected" ELSE "resolved",
               err |-> a.err, data |-> a.data]

Succeeded(c) == call[c].active /\ Outcome(c).state = "resolved"
Failed(c) == call[c].active /\ Outcome(c).state = "rejected"

EventOf(c, i) == delivered[c][i].ev
NonEmptyPage(ev) == ~FetchFailed(ev) /\ Len(ev.response.doc.results) > 0
EmptyPage(ev) == ~FetchFailed(ev) /\ Len(ev.response.doc.results) = 0

\* the result lists of the pages delivered to a call, in order of delivery
PagesOf(c) ==
    [i \in 1..Len(delivered[c]) |-> EventOf(c, i).response.doc.results]

RECURSIVE Flatten(_)
Flatten(ps) == IF ps = <<>> THEN <<>> ELSE Head(ps) \o Flatten(Tail(ps))

\* the deliveries of a call are non-empty pages P1..Pk and then an empty page
PagesThenEmpty(c) ==
    /\ call[c].active
    /\ Len(delivered[c]) >= 1
    /\ \A i \in 1..(Len(delivered[c]) - 1) : NonEmptyPage(EventOf(c, i))
    /\ EmptyPage(EventOf(c, Len(delivered[c])))

\* C1: when the pages delivered to an aggregation are non-empty pages
\* P1..Pk followed by an empty page, the aggregation has succeeded and its
\* results are P1 ++ ... ++ Pk, in page order and within-page order; and an
\* aggregation succeeds in no other case.
C1_Concatenation ==
    \A c \in Calls :
        /\ PagesThenEmpty(c) =>
               /\ Succeeded(c)
               /\ Outcome(c).data.results = Flatten(PagesOf(c))
        /\ Succeeded(c) => PagesThenEmpty(c)

\* pages [[a,b],[b],[]] gave [a,b,b]
C1_Witness ==
    \E c \in Calls :
        /\ Succeeded(c)
        /\ PagesOf(c) = << <<"a", "b">>, <<"b">>, <<>> >>
        /\ Outcome(c).data.results = <<"a", "b", "b">>

\* C2: if a page fetch of an aggregation fails with error E, the
\* aggregation has failed with exactly E and without data, and no request
\* was issued after the failed one.
C2_FailurePropagates ==
    \A c \in Calls : \A i \in 1..Len(delivered[c]) :
        FetchFailed(EventOf(c, i)) =>
            /\ Failed(c)
            /\ Outcome(c).err = query_helper(EventOf(c, i)).err
            /\ Outcome(c).data.isNull
            /\ Len(requests[c]) = delivered[c][i].request

\* C3: the i-th request of an aggregation is for page i, and request i+1
\* exists only when request i has been answered with a non-empty page.
C3_PageSequence ==
    \A c \in Calls : \A i \in 1..Len(requests[c]) :
        /\ requests[c][i].path.page = i
        /\ i > 1 =>
              /\ Len(delivered[c]) >= i - 1
              /\ delivered[c][i - 1].request = i - 1
              /\ NonEmptyPage(EventOf(c, i - 1))

\* pages 1, 2 and 3 have been requested
C3_Witness ==
    \E c \in Calls :
        /\ Len(requests[c]) = 3
        /\ Len(delivered[c]) = 3

\* C4: a successful aggregation delivers result_count =
\* search_result_total = length of results, whatever the pages reported.
C4_Counts ==
    \A c \in Calls :
        Succeeded(c) =>
            /\ Outcome(c).data.result_count = Len(Outcome(c).data.results)
            /\ Outcome(c).data.search_result_total =
                   Len(Outcome(c).data.results)

\* a success whose count differs from every total a page reported
C4_Witness ==
    \E c \in Calls :
        /\ Succeeded(c)
        /\ Len(Outcome(c).data.results) = 3
        /\ \A i \in 1..Len(delivered[c]) :
               /\ EventOf(c, i).response.doc.search_result_total # 3
               /\ EventOf(c, i).response.doc.result_count # 3

\* C5: if the first page is empty the aggregation has succeeded with no
\* results and zero counts, and page 1 is the only request.
C5_EmptyFirstPage ==
    \A c \in Calls :
        (Len(delivered[c]) >= 1 /\ EmptyPage(EventOf(c, 1))) =>
            /\ Succeeded(c)
            /\ Outcome(c).data.results = <<>>
            /\ Outcome(c).data.result_count = 0
            /\ Outcome(c).data.search_result_total = 0
            /\ Len(requests[c]) = 1
            /\ requests[c][1].path.page = 1

C5_Witness ==
    \E c \in Calls :
        /\ Len(delivered[c]) = 1
        /\ EmptyPage(EventOf(c, 1))
        /\ Succeeded(c)

\* C6: an aggregation has at most one page fetch outstanding, and every
\* request but the last has had its outcome delivered.
C6_OneOutstanding ==
    \A c \in Calls :
        /\ Cardinality(pending[c]) <= 1
        /\ Len(requests[c]) <= Len(delivered[c]) + 1
        /\ pending[c] \subseteq {Len(requests[c])}

\* a promise-style aggregation waiting for its second page
C6_Witness ==
    \E c \in Calls :
        /\ call[c].style = "promise"
        /\ Len(delivered[c]) = 1
        /\ pending[c] = {2}

\* FETCHING(n): page n is requested and no outcome has been delivered
Fetching(c, n) ==
    /\ pending[c] = {n}
    /\ requests[c][n].path.page = n
    /\ Outcome(c).state = "pending"

\* C7: the aggregation is in FETCHING(1) at first; after the k-th delivery
\* it is in FETCHING(k+1) exactly when page k was non-empty, DONE exactly
\* when page k was empty and FAILED exactly when the fetch of page k
\* failed; in DONE and FAILED nothing is outstanding.
C7_StateMachine ==
    \A c \in Calls :
        call[c].active =>
            LET k == Len(delivered[c]) IN
            IF k = 0
            THEN Fetching(c, 1)
            ELSE CASE NonEmptyPage(EventOf(c, k)) -> Fetching(c, k + 1)
                   [] EmptyPage(EventOf(c, k)) ->
                          Succeeded(c) /\ pending[c] = {}
                   [] OTHER -> Failed(c) /\ pending[c] = {}

\* C8: every request of a query_all call goes to /nodes/query/ and every
\* request of an oql_query_all call goes to /nodes/oql/, whatever the query.
C8_EntryPointSelectsEndpoint ==
    \A c \in Calls : \A i \in 1..Len(requests[c]) :
        requests[c][i].path.prefix =
            IF call[c].entry = "query_all"
            THEN "/nodes/query/"
            ELSE "/nodes/oql/"

EventsOf(c) == [i \in 1..Len(delivered[c]) |-> EventOf(c, i)]

\* C9: a callback-style and a promise-style aggregation of the same entry
\* point, query and namespace that were given the same page-fetch outcomes
\* have issued the same requests, and the callback got (null, R) exactly
\* when the promise is resolved with R, (E, null) exactly when it is
\* rejected with E, and nothing exactly when it is pending.
C9_StylesEquivalent ==
    \A c1, c2 \in Calls :
        ( /\ call[c1].active /\ call[c1].style = "callback"
          /\ call[c2].active /\ call[c2].style = "promise"
          /\ call[c1].entry = call[c2].entry
          /\ call[c1].query = call[c2].query
          /\ call[c1].namespace = call[c2].namespace
          /\ EventsOf(c1) = EventsOf(c2) )
        => /\ requests[c1] = requests[c2]
           /\ Len(cb_calls[c1]) <= 1
           /\ promise[c2].state = "pending" <=> cb_calls[c1] = <<>>
           /\ promise[c2].state = "resolved" <=>
                  /\ cb_calls[c1] # <<>>
                  /\ cb_calls[c1][1].err = Null
                  /\ ~cb_calls[c1][1].data.isNull
           /\ promise[c2].state = "resolved" =>
                  cb_calls[c1][1].data = promise[c2].data
           /\ promise[c2].state = "rejected" <=>
                  /\ cb_calls[c1] # <<>>
                  /\ cb_calls[c1][1].data.isNull
           /\ promise[c2].state = "rejected" =>
                  cb_calls[c1][1].err = promise[c2].err

\* both styles finished on the same two pages, one with (null, R) and the
\* other resolved with R
C9_Witness ==
    \E c1, c2 \in Calls :
        /\ call[c1].style = "callback" /\ call[c2].style = "promise"
        /\ call[c1].entry = call[c2].entry
        /\ call[c1].query = call[c2].query
        /\ Len(delivered[c1]) = 2
        /\ EventsOf(c1) = EventsOf(c2)
        /\ promise[c2].state = "resolved"
        /\ Len(promise[c2].data.results) = 1
        /\ cb_calls[c1] = <<[err |-> Null, data |-> promise[c2].data]>>

\* a call run alone: the helper's variables, requests and outcome after the
\* page-fetch outcomes evs, computed from nothing but the call's arguments
\* and evs
AloneStart(cl) ==
    LET func == IF cl.style = "callback"
                THEN callback_helper_func(cl.query)
                ELSE promise_helper_func(cl.query)
        f == NewFrame(func)
    IN [frame |-> f,
        requests |-> <<Fetch(f.func, cl.query, cl.namespace, f.page)>>,
        outcome |-> [NoPromise EXCEPT !.state = "pending"]]

AloneStep(cl, st, ev) ==
    LET r == query_helper(ev)
        it == IF cl.style = "callback"
              THEN callback_helper_iteratee(st.frame, r.err, r.data)
              ELSE promise_helper_iteratee(st.frame, r.err, r.data)
        f == it.frame
        again == it.cb = "ok" /\ f.has_next_page
    IN [frame |-> f,
        requests |-> IF again
                     THEN Append(st.requests,
                                 Fetch(f.func, cl.query, cl.namespace, f.page))
                     ELSE st.requests,
        outcome |-> IF it.cb = "err"
                    THEN [state |-> "rejected", err |-> r.err,
                          data |-> NullFinal]
                    ELSE IF it.cb = "ok" /\ ~again
                         THEN promise_helper_final(f, Null)
                         ELSE st.outcome]

RECURSIVE Alone(_, _)
Alone(cl, evs) ==
    IF evs = <<>>
    THEN AloneStart(cl)
    ELSE AloneStep(cl, Alone(cl, SubSeq(evs, 1, Len(evs) - 1)),
                   evs[Len(evs)])

\* C10: in every interleaving of two aggregations, each call's page
\* counter, accumulator, requests and outcome are those of the call run
\* alone on the page-fetch outcomes it was given.
C10_NoSharedState ==
    \A c \in Calls :
        call[c].active =>
            LET a == Alone(call[c], EventsOf(c)) IN
            /\ frame[Frame(c)] = a.frame
            /\ requests[c] = a.requests
            /\ Outcome(c) = a.outcome

\* both calls are in flight with different accumulators
C10_Witness ==
    /\ pending[1] = {2} /\ pending[2] = {2}
    /\ frame[Frame(1)].all_results = <<"a">>
    /\ frame[Frame(2)].all_results = <<"b">>

NonEmptyCount(c) ==
    Cardinality({i \in 1..Len(delivered[c]) : NonEmptyPage(EventOf(c, i))})

NoFetchFailed(c) ==
    \A i \in 1..Len(delivered[c]) : ~FetchFailed(EventOf(c, i))

\* C11: while no page fetch of an aggregation has failed, the number of
\* requests it has issued is the number of non-empty pages it was given
\* plus one, and an empty page is the last page it was given.
C11_PageCount ==
    \A c \in Calls :
        (call[c].active /\ NoFetchFailed(c)) =>
            /\ Len(requests[c]) = NonEmptyCount(c) + 1
            /\ \A i \in 1..Len(delivered[c]) :
                   EmptyPage(EventOf(c, i)) => i = Len(delivered[c])

\* a promise-style success after two non-empty pages and three requests
C11_Witness ==
    \E c \in Calls :
        /\ call[c].style = "promise"
        /\ Succeeded(c)
        /\ NonEmptyCount(c) = 2
        /\ Len(requests[c]) = 3

\* C12: once the server has answered a page request with an empty page or
\* with a failure, the aggregation has notified its caller of DONE or
\* FAILED; after a non-empty page it has not.
C12_Terminates ==
    \A c \in Calls :
        (call[c].active /\ Len(delivered[c]) >= 1) =>
            LET last == EventOf(c, Len(delivered[c])) IN
            IF NonEmptyPage(last)
            THEN Outcome(c).state = "pending"
            ELSE Succeeded(c) \/ Failed(c)

\* the page-fetch outcomes of two calls come from one mapping of page
\* numbers to outcomes
SameMapping(c1, c2) ==
    \A i \in 1..Len(delivered[c1]) :
        i <= Len(delivered[c2]) => EventOf(c1, i) = EventOf(c2, i)

\* C14: two aggregations with the same query and namespace that are served
\* from one mapping of page numbers to page results issue the same requests
\* as far as both have got, and when both have come to an end their
\* requests and their outcomes are identical.
C14_Deterministic ==
    \A c1, c2 \in Calls :
        ( /\ call[c1].active /\ call[c2].active
          /\ call[c1].query = call[c2].query
          /\ call[c1].namespace = call[c2].namespace
          /\ SameMapping(c1, c2) )
        => /\ \A i \in 1..Len(requests[c1]) :
                  i <= Len(requests[c2]) => requests[c1][i] = requests[c2][i]
           /\ (pending[c1] = {} /\ pending[c2] = {}) =>
                  /\ requests[c1] = requests[c2]
                  /\ Outcome(c1) = Outcome(c2)

\* two calls of different style ended with the same two-item result
C14_Witness ==
    /\ call[1].active /\ call[2].active
    /\ call[1].style # call[2].style
    /\ call[1].query = call[2].query
    /\ SameMapping(1, 2)
    /\ Succeeded(1) /\ Succeeded(2)
    /\ Outcome(1).data.results = <<"a", "b">>
    /\ Outcome(2).data.results = <<"a", "b">>

\* C15: every request of an aggregation carries the query and the
\* namespace of the call, and differs from the first request in the page
\* number only.
C15_QueryUnchanged ==
    \A c \in Calls : \A i \in 1..Len(requests[c]) :
        /\ requests[c][i].body.value = call[c].query
        /\ requests[c][i].path.namespace = call[c].namespace
        /\ requests[c][i] = [requests[c][1] EXCEPT !.path.page = i]

\* three requests for an ES query in namespace ns2
C15_Witness ==
    \E c \in Calls :
        /\ Len(requests[c]) = 3
        /\ call[c].query = ObjectV("es")
        /\ call[c].namespace = "ns2"

\* C13: the object delivered by a successful aggregation, in either style,
\* has exactly the keys search_result_total, result_count and results, where
\* results is an array and the two counts are numbers; it has no page key.
C13_ResultShape ==
    \A c \in Calls :
        Succeeded(c) =>
            LET d == Outcome(c).data IN
            /\ DOMAIN d \ {"isNull"} =
                   {"search_result_total", "result_count", "results"}
            /\ "page" \notin DOMAIN d
            /\ d.results \in Seq(Items)
            /\ d.search_result_total \in Nat
            /\ d.result_count \in Nat

\* a callback-style success over more than one page
C13_Witness ==
    \E c \in Calls :
        /\ call[c].style = "callback"
        /\ Succeeded(c)
        /\ Len(delivered[c]) >= 3
        /\ Len(Outcome(c).data.results) >= 2

(***************************************************************************)
(* Single-request operations: properties.                                  *)
(***************************************************************************)
\* how the call of slot s has completed, in the terms of a promise: a
\* callback invoked with a null err is a success with its data, a callback
\* invoked with any other err is a failure with that err
OpOutcome(s) ==
    IF ops[s].style = "promise"
    THEN ops[s].promise
    ELSE IF ops[s].cb_calls = <<>>
         THEN [NoOpPromise EXCEPT !.state = "pending"]
         ELSE LET a == ops[s].cb_calls[Len(ops[s].cb_calls)] IN
              IF a.err = Null
              THEN [state |-> "resolved", err |-> Null, data |-> a.data]
              ELSE [state |-> "rejected", err |-> a.err,
                    data |-> UndefinedData]

\* the request of slot s has got a response, which has ended
Answered(s) ==
    /\ ops[s].issued
    /\ Len(ops[s].events) = 1
    /\ ops[s].events[1].type = "end"

ResponseOf(s) == ops[s].events[1].response

C17_ValidateNode ==
    \A s \in OpSlots :
        (ops[s].name = "validate_node" /\ Answered(s)) =>
            IF ResponseOf(s).statusCode \in {200, 422}
            THEN /\ OpOutcome(s).state = "resolved"
                 /\ OpOutcome(s).data = TextData(Body(ResponseOf(s)))
            ELSE /\ OpOutcome(s).state = "rejected"
                 /\ OpOutcome(s).err = error_of(ResponseOf(s))

\* a callback-style validate_node answered 422 got the body as text
C17_Witness ==
    \E s \in OpSlots :
        /\ ops[s].name = "validate_node"
        /\ ops[s].style = "callback"
        /\ Answered(s)
        /\ ResponseOf(s).statusCode = 422
        /\ Len(ops[s].cb_calls) = 1
        /\ ops[s].cb_calls[1].err = Null
        /\ ops[s].cb_calls[1].data.kind = "text"

\* C18: insert_node completes successfully with a string node id, the last
\* '/'-separated segment of the Location header, whenever the response
\* status is 201, and with an error and a null node id for any other status.
C18_InsertNode ==
    \A s \in OpSlots :
        (ops[s].name = "insert_node" /\ Answered(s)) =>
            IF ResponseOf(s).statusCode = 201
            THEN /\ OpOutcome(s).state = "resolved"
                 /\ OpOutcome(s).data.kind = "string"
                 /\ OpOutcome(s).data.chars = split_pop(ResponseOf(s).location)
            ELSE /\ OpOutcome(s).state = "rejected"
                 /\ ops[s].style = "callback" =>
                        ops[s].cb_calls[1].data = NullValue

\* a call on a configured client issues its request
IssuesRequest(s) == ~ops[s].active /\ ops'[s].issued

C20_DefaultPort ==
    [][\A s \in OpSlots :
          ( /\ IssuesRequest(s)
            /\ last_settings.called
            /\ last_settings.settings.port = Undefined )
          => ops'[s].request.port = NumberV(8123)]_vars

(***************************************************************************)
(* The accumulator, falsy errors, and the completion of single requests.   *)
(***************************************************************************)
\* s is a prefix of t
IsPrefix(s, t) == Len(s) <= Len(t) /\ SubSeq(t, 1, Len(s)) = s

\* C21: the accumulator of an aggregation only grows at its end: in every
\* step its old contents are a prefix of its new contents; and as long as
\* every page fetched so far was fetched successfully, it is the
\* concatenation of exactly those pages.
C21_AccumulatorGrows ==
    /\ [][\A c \in Calls :
             call[c].active =>
                 IsPrefix(frame[Frame(c)].all_results,
                          frame'[Frame(c)].all_results)]_vars
    /\ [](\A c \in Calls :
             (call[c].active /\ NoFetchFailed(c)) =>
                 frame[Frame(c)].all_results = Flatten(PagesOf(c)))

\* a promise-style aggregation has accumulated [a, b] from two pages and
\* waits for the third
C21_Witness ==
    \E c \in Calls :
        /\ call[c].style = "promise"
        /\ Len(delivered[c]) = 2
        /\ PagesOf(c) = << <<"a">>, <<"b">> >>
        /\ frame[Frame(c)].all_results = <<"a", "b">>
        /\ pending[c] # {}

\* C22: a failed page fetch, whatever its error value, leaves the
\* aggregation FAILED: it has an outcome, the outcome is not a success, and
\* no exception has left the page callback.
C22_FalsyErrorsFail ==
    \A c \in Calls :
        (\E i \in 1..Len(delivered[c]) : FetchFailed(EventOf(c, i))) =>
            /\ Failed(c)
            /\ ~uncaught[c]

\* C23: whatever http events a request has, and in whatever order, the
\* caller's callback is invoked at most once and a settled promise is not
\* settled again.
C23_CompletesOnce ==
    /\ [](\A s \in OpSlots : Len(ops[s].cb_calls) <= 1)
    /\ [][\A s \in OpSlots :
             ops[s].promise.state \in {"resolved", "rejected"} =>
                 ops'[s].promise = ops[s].promise]_vars

\* the statuses an operation takes for a success, by the handler it installs
SuccessStatus(handler, status) ==
    CASE handler = "regular" -> status >= 200 /\ status < 300
      [] handler = "deletion" -> status = 204
      [] handler \in {"insertion", "insert_node"} -> status = 201
      [] handler = "edit" -> status = 200
      [] handler = "validate_node" -> status \in {200, 422}

\* the request of slot s has had its one http event
Ended(s) == ops[s].issued /\ Len(ops[s].events) = 1

\* C24: a call of a get or query operation has completed, with success or
\* with an error, once its response has ended or its request has errored,
\* whatever the status and the body; after a 2xx response it has completed
\* successfully.
C24_GetQueryCompletes ==
    \A s \in OpSlots :
        (ops[s].handler = "regular" /\ Ended(s)) =>
            /\ OpOutcome(s).state \in {"resolved", "rejected"}
            /\ (Answered(s) /\ SuccessStatus("regular", ResponseOf(s).statusCode))
                   => OpOutcome(s).state = "resolved"

\* C25: after a response whose status is not a success status of the
\* operation, the error that reaches the caller, in either style, is the
\* x-osdf-error header if the response has it, else the statusMessage if
\* the response has it, else the statusCode; the body reaches nobody.
C25_ErrorDecoding ==
    \A s \in OpSlots :
        (Answered(s)
             /\ ~SuccessStatus(ops[s].handler, ResponseOf(s).statusCode)) =>
            LET r == ResponseOf(s) IN
            /\ OpOutcome(s).state = "rejected"
            /\ OpOutcome(s).err =
                   IF r.hasErrorHeader THEN StringV(r.errorHeader)
                   ELSE IF r.hasStatusMessage THEN StringV(r.statusMessage)
                        ELSE NumberV(r.statusCode)
            /\ ops[s].style = "callback" =>
                   /\ Len(ops[s].cb_calls) = 1
                   /\ ops[s].cb_calls[1].data.kind \in {"null", "undefined"}

\* a promise-style edit_schema was rejected with the x-osdf-error header of
\* a response that also has a statusMessage
C25_Witness ==
    \E s \in OpSlots :
        /\ ops[s].name = "edit_schema"
        /\ ops[s].style = "promise"
        /\ Answered(s)
        /\ ResponseOf(s).statusCode = 500
        /\ ResponseOf(s).hasStatusMessage
        /\ OpOutcome(s).err = StringV("bad query")

\* C26: the delete operations succeed on status 204 and on no other, the
\* insert operations on no status but 201, the edit operations on 200 and
\* on no other, and the get and query operations on every status in
\* 200..299 and on no other; every other status is reported as an error,
\* and a successful delete, insert_schema / insert_aux_schema or edit
\* delivers no data.
C26_SuccessStatus ==
    \A s \in OpSlots :
        (Answered(s) /\ ops[s].handler # "validate_node") =>
            LET ok == SuccessStatus(ops[s].handler, ResponseOf(s).statusCode)
            IN /\ ~ok => OpOutcome(s).state = "rejected"
               /\ (ok /\ ops[s].handler # "insert_node") =>
                      OpOutcome(s).state = "resolved"
               /\ (ok /\ ops[s].handler \in {"deletion", "insertion", "edit"})
                      => OpOutcome(s).data = UndefinedData

====
